---- MODULE Spec2Model ----
(***************************************************************************)
(* Abydos: the SAPS and LegaliPy tokenizers and the token statistics table *)
(* that the token-based coefficients read.                                 *)
(*                                                                         *)
(* A Python str is a sequence of one-character strings; a token is such a  *)
(* sequence too; a Counter is a function from tokens to positive counts.   *)
(***************************************************************************)
EXTENDS Integers, Sequences, FiniteSets, TLC

(* ------------------------------ bounds -------------------------------- *)
\* longest string handed to a tokenizer by a single caller
MaxLen == 3
\* longest string handed to a tokenizer by one of two concurrent callers
MaxLenThreads == 2

\* longest string handed to a tokenizer by a caller that uses one of each class
MaxLenCache == 2
\* longest text handed to train_onsets
MaxText == 1
\* largest count of one token in one multiset
MaxCount == 2
\* largest alphabet size a caller supplies
MaxAlphabet == 4
\* largest n_bits a Count fingerprint is built with
MaxBits == 5
\* longest word handed to Count.fingerprint
MaxWord == 4

Vowels == {"a"}
Consonants == {"b"}
Whitespace == {" "}
Chars == Vowels \cup Consonants \cup Whitespace
Threads == {1, 2}

Strings(n) == UNION {[1..k -> Chars] : k \in 0..n}

\* the tokens the compared multisets are drawn from
TokenUniverse == {<<"a">>, <<"b">>, <<"a", "b">>}

Counters == UNION {[D -> 1..MaxCount] : D \in SUBSET TokenUniverse}

(* --------------------------- Python helpers --------------------------- *)
Min(a, b) == IF a < b THEN a ELSE b

\* w[a:b] with 0 <= a <= b, clipped at the end of w as Python clips it
Slice(w, a, b) == SubSeq(w, a + 1, Min(b, Len(w)))

\* w[a:]
SliceFrom(w, a) == SubSeq(w, a + 1, Len(w))

\* `x in _vowels` for a slice x of at most one character ('' is no vowel)
InVowels(x) == Len(x) = 1 /\ x[1] \in Vowels

RECURSIVE SplitAcc(_, _, _)
SplitAcc(s, cur, acc) ==
    IF s = <<>>
    THEN IF cur = <<>> THEN acc ELSE Append(acc, cur)
    ELSE IF Head(s) \in Whitespace
         THEN SplitAcc(Tail(s), <<>>, IF cur = <<>> THEN acc ELSE Append(acc, cur))
         ELSE SplitAcc(Tail(s), Append(cur, Head(s)), acc)

\* str.split(): the maximal runs of non-whitespace characters, in order
Split(s) == SplitAcc(s, <<>>, <<>>)

Range(f) == {f[k] : k \in DOMAIN f}

\* collections.Counter(list)
Counter(list) ==
    [tok \in Range(list) |-> Cardinality({k \in DOMAIN list : list[k] = tok})]

(* ------------------- SAPSTokenizer.tokenize as a function ------------- *)
\* lines 91-93: the index after the vowels that follow position i
RECURSIVE AbsorbVowels(_, _)
AbsorbVowels(w, i) ==
    IF InVowels(Slice(w, i, i + 1)) THEN AbsorbVowels(w, i + 1) ELSE i

\* the coda test without the look at the character after the consonant
TakesCoda_NoLookahead(w, i, syll) ==
    /\ syll[Len(syll)] \in Vowels
    /\ Len(SliceFrom(w, i)) >= 1
    /\ ~InVowels(Slice(w, i, i + 1))

\* lines 94-101: the test that lets the syllable take one more consonant
TakesCoda(w, i, syll) ==
    /\ syll[Len(syll)] \in Vowels
    /\ \/ /\ Len(SliceFrom(w, i)) > 1
          /\ ~InVowels(Slice(w, i, i + 1))
          /\ ~InVowels(Slice(w, i + 1, i + 2))
       \/ /\ Len(SliceFrom(w, i)) = 1
          /\ ~InVowels(Slice(w, i, i + 1))

\* lines 88-104: the syllables of one word, from index i on
RECURSIVE SyllLoop(_, _, _)
SyllLoop(w, i, list) ==
    IF i < Len(w)
    THEN LET j == AbsorbVowels(w, i + 1)
             k == IF TakesCoda(w, j, Slice(w, i, j)) THEN j + 1 ELSE j
         IN  SyllLoop(w, k, Append(list, Slice(w, i, k)))
    ELSE list

\* lines 85-104: the list is emptied again at the top of every word
RECURSIVE WordLoop(_, _)
WordLoop(words, list) ==
    IF words = <<>> THEN list
    ELSE WordLoop(Tail(words), SyllLoop(Head(words), 0, <<>>))

\* lines 78-104: the ordered list a fresh instance holds after tokenize(string)
SAPSOrderedList(string) == WordLoop(Split(string), <<>>)

(* ------------------------------- state --------------------------------- *)
VARIABLES
    self_string,        \* SAPSTokenizer._string
    self_ordered_list,  \* SAPSTokenizer._ordered_list
    self_tokens,        \* SAPSTokenizer._tokens (the Counter)
    pc,                 \* per thread: the line of tokenize it is about to run
    string,             \* per thread: the argument of its tokenize call
    words, widx, w, i, syll,   \* per thread: the locals of tokenize
    overlapped,         \* history: some call began while another was running
    LegaliPy,           \* the module-level name LegaliPy: "None" or "function"
    lp,                 \* the LegaliPyTokenizer instance, or NoInstance
    lp_raised,          \* where the LegaliPyTokenizer code last raised, or "none"
    lp_trained,         \* history: train_onsets was called on the instance
    src_tokens,         \* _TokenDistance._src_tokens
    tar_tokens,         \* _TokenDistance._tar_tokens
    alphabet,           \* the alphabet parameter of the coefficient
    table,              \* the statistics and result of cmp.sim(src, tar)
    table_rev,          \* the statistics and result of cmp.sim(tar, src)
    lorentzian,         \* the result of Lorentzian.dist_abs(src, tar)
    coefficient,        \* the results of the correlation coefficients' sim(src, tar)
    n_bits,             \* Count._n_bits
    most_common,        \* Count._most_common
    fp_word,            \* the argument of Count.fingerprint
    fingerprint         \* the value Count.fingerprint returned

sapsVars == <<self_string, self_ordered_list, self_tokens, pc, string,
              words, widx, w, i, syll, overlapped>>

legaliVars == <<LegaliPy, lp, lp_raised, lp_trained>>

statsVars == <<src_tokens, tar_tokens, alphabet, table, table_rev>>

distVars == <<lorentzian, coefficient>>

countVars == <<n_bits, most_common, fp_word, fingerprint>>

vars == <<sapsVars, legaliVars, statsVars, distVars, countVars>>

NoString == <<"None">>

Running(t) == pc[t] \notin {"idle", "done", "raised"}

InitSAPS ==
    /\ self_string = NoString
    /\ self_ordered_list = <<>>
    /\ self_tokens = Counter(<<>>)
    /\ pc = [t \in Threads |-> "idle"]
    /\ string = [t \in Threads |-> <<>>]
    /\ words = [t \in Threads |-> <<>>]
    /\ widx = [t \in Threads |-> 0]
    /\ w = [t \in Threads |-> <<>>]
    /\ i = [t \in Threads |-> 0]
    /\ syll = [t \in Threads |-> <<>>]
    /\ overlapped = FALSE

(* ---------------- SAPSTokenizer.tokenize, line by line ---------------- *)
\* a caller enters tokenize(s)
Call(t, s) ==
    /\ ~Running(t)
    /\ pc[t] # "raised"
    /\ pc' = [pc EXCEPT ![t] = "l78"]
    /\ string' = [string EXCEPT ![t] = s]
    /\ overlapped' = (overlapped \/ \E u \in Threads \ {t} : Running(u))
    /\ UNCHANGED <<self_string, self_ordered_list, self_tokens,
                   words, widx, w, i, syll>>
    /\ UNCHANGED <<legaliVars, statsVars, distVars, countVars>>

\* line 78 left out: the argument is never stored
L78_KeepsString(t) ==
    /\ pc[t] = "l78"
    /\ pc' = [pc EXCEPT ![t] = "l80"]
    /\ UNCHANGED <<self_string, self_ordered_list, self_tokens, string,
                   words, widx, w, i, syll, overlapped>>
    /\ UNCHANGED <<legaliVars, statsVars, distVars, countVars>>

\* self._string = string
L78(t) ==
    /\ pc[t] = "l78"
    /\ self_string' = string[t]
    /\ pc' = [pc EXCEPT ![t] = "l80"]
    /\ UNCHANGED <<self_ordered_list, self_tokens, string,
                   words, widx, w, i, syll, overlapped>>
    /\ UNCHANGED <<legaliVars, statsVars, distVars, countVars>>

\* line 80 left out: the list of the call before is kept
L80_KeepsList(t) ==
    /\ pc[t] = "l80"
    /\ pc' = [pc EXCEPT ![t] = "l84"]
    /\ UNCHANGED <<self_string, self_ordered_list, self_tokens, string,
                   words, widx, w, i, syll, overlapped>>
    /\ UNCHANGED <<legaliVars, statsVars, distVars, countVars>>

\* self._ordered_list = []
L80(t) ==
    /\ pc[t] = "l80"
    /\ self_ordered_list' = <<>>
    /\ pc' = [pc EXCEPT ![t] = "l84"]
    /\ UNCHANGED <<self_string, self_tokens, string,
                   words, widx, w, i, syll, overlapped>>
    /\ UNCHANGED <<legaliVars, statsVars, distVars, countVars>>

\* words = self._string.split()
L84(t) ==
    /\ pc[t] = "l84"
    /\ words' = [words EXCEPT ![t] = Split(self_string)]
    /\ widx' = [widx EXCEPT ![t] = 0]
    /\ pc' = [pc EXCEPT ![t] = "l85"]
    /\ UNCHANGED <<self_string, self_ordered_list, self_tokens, string,
                   w, i, syll, overlapped>>
    /\ UNCHANGED <<legaliVars, statsVars, distVars, countVars>>

\* for w in words:
L85(t) ==
    /\ pc[t] = "l85"
    /\ IF widx[t] < Len(words[t])
       THEN /\ w' = [w EXCEPT ![t] = words[t][widx[t] + 1]]
            /\ widx' = [widx EXCEPT ![t] = widx[t] + 1]
            /\ pc' = [pc EXCEPT ![t] = "l86"]
       ELSE /\ pc' = [pc EXCEPT ![t] = "l106"]
            /\ UNCHANGED <<w, widx>>
    /\ UNCHANGED <<self_string, self_ordered_list, self_tokens, string,
                   words, i, syll, overlapped>>
    /\ UNCHANGED <<legaliVars, statsVars, distVars, countVars>>

\* self._ordered_list = [] ; i = 0
L86(t) ==
    /\ pc[t] = "l86"
    /\ self_ordered_list' = <<>>
    /\ i' = [i EXCEPT ![t] = 0]
    /\ pc' = [pc EXCEPT ![t] = "l88"]
    /\ UNCHANGED <<self_string, self_tokens, string,
                   words, widx, w, syll, overlapped>>
    /\ UNCHANGED <<legaliVars, statsVars, distVars, countVars>>

\* the loop test written as i <= len(w)
L88_OffByOne(t) ==
    /\ pc[t] = "l88"
    /\ pc' = [pc EXCEPT ![t] = IF i[t] <= Len(w[t]) THEN "l89" ELSE "l85"]
    /\ UNCHANGED <<self_string, self_ordered_list, self_tokens, string,
                   words, widx, w, i, syll, overlapped>>
    /\ UNCHANGED <<legaliVars, statsVars, distVars, countVars>>

\* while i < len(w):
L88(t) ==
    /\ pc[t] = "l88"
    /\ pc' = [pc EXCEPT ![t] = IF i[t] < Len(w[t]) THEN "l89" ELSE "l85"]
    /\ UNCHANGED <<self_string, self_ordered_list, self_tokens, string,
                   words, widx, w, i, syll, overlapped>>
    /\ UNCHANGED <<legaliVars, statsVars, distVars, countVars>>

\* syll = w[i : i + 1] ; i += 1
L89(t) ==
    /\ pc[t] = "l89"
    /\ syll' = [syll EXCEPT ![t] = Slice(w[t], i[t], i[t] + 1)]
    /\ i' = [i EXCEPT ![t] = i[t] + 1]
    /\ pc' = [pc EXCEPT ![t] = "l91"]
    /\ UNCHANGED <<self_string, self_ordered_list, self_tokens, string,
                   words, widx, w, overlapped>>
    /\ UNCHANGED <<legaliVars, statsVars, distVars, countVars>>

\* while w[i : i + 1] in _vowels: syll += w[i : i + 1] ; i += 1
L91(t) ==
    /\ pc[t] = "l91"
    /\ IF InVowels(Slice(w[t], i[t], i[t] + 1))
       THEN /\ syll' = [syll EXCEPT ![t] = syll[t] \o Slice(w[t], i[t], i[t] + 1)]
            /\ i' = [i EXCEPT ![t] = i[t] + 1]
            /\ UNCHANGED pc
       ELSE /\ pc' = [pc EXCEPT ![t] = "l94"]
            /\ UNCHANGED <<syll, i>>
    /\ UNCHANGED <<self_string, self_ordered_list, self_tokens, string,
                   words, widx, w, overlapped>>
    /\ UNCHANGED <<legaliVars, statsVars, distVars, countVars>>

\* lines 94-103 left out: no syllable takes a coda
L94_NoCoda(t) ==
    /\ pc[t] = "l94"
    /\ pc' = [pc EXCEPT ![t] = "l104"]
    /\ UNCHANGED <<self_string, self_ordered_list, self_tokens, string,
                   words, widx, w, i, syll, overlapped>>
    /\ UNCHANGED <<legaliVars, statsVars, distVars, countVars>>

\* if syll[-1] in _vowels and (...): syll += w[i : i + 1] ; i += 1
\* (syll[-1] of an empty syll raises IndexError)
L94(t) ==
    /\ pc[t] = "l94"
    /\ IF syll[t] = <<>>
       THEN /\ pc' = [pc EXCEPT ![t] = "raised"]
            /\ UNCHANGED <<syll, i>>
       ELSE /\ IF TakesCoda(w[t], i[t], syll[t])
               THEN /\ syll' = [syll EXCEPT ![t] = syll[t] \o Slice(w[t], i[t], i[t] + 1)]
                    /\ i' = [i EXCEPT ![t] = i[t] + 1]
               ELSE UNCHANGED <<syll, i>>
            /\ pc' = [pc EXCEPT ![t] = "l104"]
    /\ UNCHANGED <<self_string, self_ordered_list, self_tokens, string,
                   words, widx, w, overlapped>>
    /\ UNCHANGED <<legaliVars, statsVars, distVars, countVars>>

\* self._ordered_list.append(syll)
L104(t) ==
    /\ pc[t] = "l104"
    /\ self_ordered_list' = Append(self_ordered_list, syll[t])
    /\ pc' = [pc EXCEPT ![t] = "l88"]
    /\ UNCHANGED <<self_string, self_tokens, string,
                   words, widx, w, i, syll, overlapped>>
    /\ UNCHANGED <<legaliVars, statsVars, distVars, countVars>>

\* _Tokenizer.tokenize(): the Counter of the ordered list
TokenizerTokenize(list) == Counter(list)

\* super(SAPSTokenizer, self).tokenize() ; return self
L106(t) ==
    /\ pc[t] = "l106"
    /\ self_tokens' = TokenizerTokenize(self_ordered_list)
    /\ pc' = [pc EXCEPT ![t] = "done"]
    /\ words' = [words EXCEPT ![t] = <<>>]
    /\ widx' = [widx EXCEPT ![t] = 0]
    /\ w' = [w EXCEPT ![t] = <<>>]
    /\ i' = [i EXCEPT ![t] = 0]
    /\ syll' = [syll EXCEPT ![t] = <<>>]
    /\ UNCHANGED <<self_string, self_ordered_list, string, overlapped>>
    /\ UNCHANGED <<legaliVars, statsVars, distVars, countVars>>

\* one line of a tokenize call that is under way
Step(t) ==
    \/ L78(t) \/ L80(t) \/ L84(t) \/ L85(t) \/ L86(t) \/ L88(t)
    \/ L89(t) \/ L91(t) \/ L94(t) \/ L104(t) \/ L106(t)

(* ------------------------- LegaliPyTokenizer --------------------------- *)
NoInstance == [absent |-> TRUE]

\* syllabipy.legalipy.LegaliPy(string, onsets): at each position the longest
\* listed onset that matches there, else the single character
RECURSIVE SyllabiPyLegaliPy(_, _, _, _)
SyllabiPyLegaliPy(str, onsets, pos, acc) ==
    IF pos >= Len(str) THEN acc
    ELSE LET lens == {Len(onsets[k]) : k \in
                        {k \in DOMAIN onsets :
                            /\ Len(onsets[k]) > 0
                            /\ Slice(str, pos, pos + Len(onsets[k])) = onsets[k]}}
             n == IF lens = {} THEN 1
                  ELSE CHOOSE m \in lens : \A m2 \in lens : m2 <= m
         IN  SyllabiPyLegaliPy(str, onsets, pos + n,
                               Append(acc, Slice(str, pos, pos + n)))

\* the consonants a word begins with
RECURSIVE LeadingConsonants(_)
LeadingConsonants(word) ==
    IF word = <<>> \/ Head(word) \notin Consonants THEN <<>>
    ELSE <<Head(word)>> \o LeadingConsonants(Tail(word))

RECURSIVE OnsetsOf(_, _)
OnsetsOf(ws, acc) ==
    IF ws = <<>> THEN acc
    ELSE LET o == LeadingConsonants(Head(ws))
         IN  OnsetsOf(Tail(ws),
                      IF o = <<>> \/ o \in Range(acc) THEN acc ELSE Append(acc, o))

\* syllabipy.legalipy.getOnsets(text, threshold, clean): the onsets in use
\* in the text, each listed once
SyllabiPyGetOnsets(text) == OnsetsOf(Split(text), <<>>)

\* list(set(xs)): the distinct elements of xs, in an order Python does not fix
ListsOfSet(S) ==
    {l \in [1..Cardinality(S) -> S] : Range(l) = S}

InitLegaliPy(bindings) ==
    /\ LegaliPy \in bindings
    /\ lp = NoInstance
    /\ lp_raised = "none"
    /\ lp_trained = FALSE

\* __init__ without the test of LegaliPy
LegaliPyTokenizerInit_NoGuard ==
    /\ lp = NoInstance
    /\ lp' = [string |-> NoString, ordered_list |-> <<>>,
              tokens |-> Counter(<<>>), onsets |-> << <<>> >>]
    /\ lp_raised' = "none"
    /\ UNCHANGED <<LegaliPy, lp_trained, sapsVars, statsVars, distVars, countVars>>

\* __init__ with self._onsets = []
LegaliPyTokenizerInit_NoOnset ==
    /\ lp = NoInstance
    /\ IF LegaliPy = "None"
       THEN /\ lp_raised' = "TypeError in __init__"
            /\ UNCHANGED lp
       ELSE /\ lp' = [string |-> NoString, ordered_list |-> <<>>,
                      tokens |-> Counter(<<>>), onsets |-> <<>>]
            /\ lp_raised' = "none"
    /\ UNCHANGED <<LegaliPy, lp_trained, sapsVars, statsVars, distVars, countVars>>

\* LegaliPyTokenizer.__init__
LegaliPyTokenizerInit ==
    /\ lp = NoInstance
    /\ IF LegaliPy = "None"
       THEN /\ lp_raised' = "TypeError in __init__"
            /\ UNCHANGED lp
       ELSE /\ lp' = [string |-> NoString, ordered_list |-> <<>>,
                      tokens |-> Counter(<<>>), onsets |-> << <<>> >>]
            /\ lp_raised' = "none"
    /\ UNCHANGED <<LegaliPy, lp_trained, sapsVars, statsVars, distVars, countVars>>

\* train_onsets extending the list without list(set(...))
train_onsets_Extend(text, append) ==
    /\ lp # NoInstance
    /\ IF LegaliPy = "None"
       THEN /\ lp_raised' = "TypeError in train_onsets"
            /\ UNCHANGED lp
       ELSE /\ LET new_onsets == SyllabiPyGetOnsets(text)
               IN  IF append
                   THEN lp' = [lp EXCEPT !.onsets = lp.onsets \o new_onsets]
                   ELSE lp' = [lp EXCEPT !.onsets = new_onsets]
            /\ lp_raised' = "none"
    /\ lp_trained' = TRUE
    /\ UNCHANGED <<LegaliPy, sapsVars, statsVars, distVars, countVars>>

\* LegaliPyTokenizer.train_onsets (getOnsets is None when SyllabiPy is missing)
train_onsets(text, append) ==
    /\ lp # NoInstance
    /\ IF LegaliPy = "None"
       THEN /\ lp_raised' = "TypeError in train_onsets"
            /\ UNCHANGED lp
       ELSE /\ LET new_onsets == SyllabiPyGetOnsets(text)
               IN  IF append
                   THEN \E l \in ListsOfSet(Range(lp.onsets \o new_onsets)) :
                            lp' = [lp EXCEPT !.onsets = l]
                   ELSE lp' = [lp EXCEPT !.onsets = new_onsets]
            /\ lp_raised' = "none"
    /\ lp_trained' = TRUE
    /\ UNCHANGED <<LegaliPy, sapsVars, statsVars, distVars, countVars>>

\* LegaliPyTokenizer.tokenize (LegaliPy is None when SyllabiPy is missing)
LegaliPyTokenize(s) ==
    /\ lp # NoInstance
    /\ IF LegaliPy = "None"
       THEN /\ lp_raised' = "TypeError in tokenize"
            /\ lp' = [lp EXCEPT !.string = s]
       ELSE /\ LET list == SyllabiPyLegaliPy(s, lp.onsets, 0, <<>>)
               IN  lp' = [lp EXCEPT !.string = s,
                                    !.ordered_list = list,
                                    !.tokens = TokenizerTokenize(list)]
            /\ lp_raised' = "none"
    /\ UNCHANGED <<LegaliPy, lp_trained, sapsVars, statsVars, distVars, countVars>>

(* ----------------------- token statistics table ------------------------ *)
NoTable == [absent |-> TRUE]

\* Counter.__getitem__: a token that is not a key counts 0
Count(c, tok) == IF tok \in DOMAIN c THEN c[tok] ELSE 0

Max(a, b) == IF a > b THEN a ELSE b

RECURSIVE SumOver(_, _)
SumOver(S, f) ==
    IF S = {} THEN 0
    ELSE LET x == CHOOSE x \in S : TRUE
         IN  f[x] + SumOver(S \ {x}, f)

\* the table with neither = alphabet - both
StatisticsTable_NeitherFromBoth(A, B, alph) ==
    LET S == DOMAIN A \cup DOMAIN B
        both == Cardinality({tok \in S : Count(A, tok) > 0 /\ Count(B, tok) > 0})
        only_a == Cardinality({tok \in S : Count(A, tok) > 0 /\ Count(B, tok) = 0})
        only_b == Cardinality({tok \in S : Count(A, tok) = 0 /\ Count(B, tok) > 0})
    IN  [ total        |-> [tok \in S |-> Count(A, tok) + Count(B, tok)],
          intersection |-> SumOver(S, [tok \in S |-> Min(Count(A, tok), Count(B, tok))]),
          union        |-> SumOver(S, [tok \in S |-> Max(Count(A, tok), Count(B, tok))]),
          both         |-> both,
          only_a       |-> only_a,
          only_b       |-> only_b,
          neither      |-> IF alph = 0 THEN 0 ELSE alph - both ]

\* the table with the intersection summed from the first multiset's counts
StatisticsTable_IntersectionFromA(A, B, alph) ==
    LET S == DOMAIN A \cup DOMAIN B
        both == Cardinality({tok \in S : Count(A, tok) > 0 /\ Count(B, tok) > 0})
        only_a == Cardinality({tok \in S : Count(A, tok) > 0 /\ Count(B, tok) = 0})
        only_b == Cardinality({tok \in S : Count(A, tok) = 0 /\ Count(B, tok) > 0})
    IN  [ total        |-> [tok \in S |-> Count(A, tok) + Count(B, tok)],
          intersection |-> SumOver(S, [tok \in S |->
                               IF Count(B, tok) > 0 THEN Count(A, tok) ELSE 0]),
          union        |-> SumOver(S, [tok \in S |-> Max(Count(A, tok), Count(B, tok))]),
          both         |-> both,
          only_a       |-> only_a,
          only_b       |-> only_b,
          neither      |-> IF alph = 0 THEN 0 ELSE alph - both - only_a - only_b ]

\* the table with alphabet = 0 read as an alphabet of no tokens
StatisticsTable_NoSentinel(A, B, alph) ==
    LET S == DOMAIN A \cup DOMAIN B
        both == Cardinality({tok \in S : Count(A, tok) > 0 /\ Count(B, tok) > 0})
        only_a == Cardinality({tok \in S : Count(A, tok) > 0 /\ Count(B, tok) = 0})
        only_b == Cardinality({tok \in S : Count(A, tok) = 0 /\ Count(B, tok) > 0})
    IN  [ total        |-> [tok \in S |-> Count(A, tok) + Count(B, tok)],
          intersection |-> SumOver(S, [tok \in S |-> Min(Count(A, tok), Count(B, tok))]),
          union        |-> SumOver(S, [tok \in S |-> Max(Count(A, tok), Count(B, tok))]),
          both         |-> both,
          only_a       |-> only_a,
          only_b       |-> only_b,
          neither      |-> alph - both - only_a - only_b ]

\* compute(tokensA, tokensB, alphabet_policy); alph = 0 is the open-world
\* sentinel, any other value the size of the closed-world alphabet
StatisticsTable(A, B, alph) ==
    LET S == DOMAIN A \cup DOMAIN B
        both == Cardinality({tok \in S : Count(A, tok) > 0 /\ Count(B, tok) > 0})
        only_a == Cardinality({tok \in S : Count(A, tok) > 0 /\ Count(B, tok) = 0})
        only_b == Cardinality({tok \in S : Count(A, tok) = 0 /\ Count(B, tok) > 0})
    IN  [ total        |-> [tok \in S |-> Count(A, tok) + Count(B, tok)],
          intersection |-> SumOver(S, [tok \in S |-> Min(Count(A, tok), Count(B, tok))]),
          union        |-> SumOver(S, [tok \in S |-> Max(Count(A, tok), Count(B, tok))]),
          both         |-> both,
          only_a       |-> only_a,
          only_b       |-> only_b,
          neither      |-> IF alph = 0 THEN 0 ELSE alph - both - only_a - only_b ]

\* BaroniUrbaniBuserII.sim from the table: the value
\* (sqrt(root) + num) / (sqrt(root) + den), kept as its three integers;
\* the pair with nothing observed on either side is 1.0
BaroniUrbaniBuserIISim(t) ==
    IF t.both + t.only_a + t.only_b = 0
    THEN [root |-> 0, num |-> 1, den |-> 1]
    ELSE [root |-> t.both * t.neither,
          num  |-> t.both,
          den  |-> t.both + t.only_a + t.only_b]

\* cmp.sim(x, y): the table of the pair together with the coefficient
Sim(A, B, alph) ==
    LET t == StatisticsTable(A, B, alph)
    IN  [stats |-> t, sim |-> BaroniUrbaniBuserIISim(t)]

\* the tests call cmp.sim(src, tar) ...
SimSrcTar ==
    /\ table' = Sim(src_tokens, tar_tokens, alphabet)
    /\ UNCHANGED <<src_tokens, tar_tokens, alphabet, table_rev>>
    /\ UNCHANGED <<sapsVars, legaliVars, distVars, countVars>>

\* ... and cmp.sim(tar, src)
SimTarSrc ==
    /\ table_rev' = Sim(tar_tokens, src_tokens, alphabet)
    /\ UNCHANGED <<src_tokens, tar_tokens, alphabet, table>>
    /\ UNCHANGED <<sapsVars, legaliVars, distVars, countVars>>

InitStats(counters, alphabets) ==
    /\ src_tokens \in counters
    /\ tar_tokens \in counters
    /\ alphabet \in alphabets
    /\ table = NoTable
    /\ table_rev = NoTable

(* ----------------------------- Lorentzian ------------------------------ *)
NoResult == [absent |-> TRUE]

Abs(x) == IF x < 0 THEN 0 - x ELSE x

RECURSIVE ProductOver(_, _)
ProductOver(S, f) ==
    IF S = {} THEN 1
    ELSE LET x == CHOOSE x \in S : TRUE
         IN  f[x] * ProductOver(S \ {x}, f)

\* _TokenDistance._total(): the sum of the two Counters
TokenDistanceTotal(A, B) ==
    [tok \in DOMAIN A \cup DOMAIN B |-> Count(A, tok) + Count(B, tok)]

\* dist_abs with the sum of the two counts, as the class docstring writes it
LorentzianDistAbs_Sum(A, B) ==
    LET alph == DOMAIN TokenDistanceTotal(A, B)
        terms == [tok \in alph |-> Abs(Count(A, tok) + Count(B, tok))]
    IN  [terms |-> terms,
         product |-> ProductOver(alph, [tok \in alph |-> 1 + terms[tok]])]

\* dist_abs over the keys of the first multiset only
LorentzianDistAbs_SrcKeys(A, B) ==
    LET alph == DOMAIN A
        terms == [tok \in alph |-> Abs(Count(A, tok) - Count(B, tok))]
    IN  [terms |-> terms,
         product |-> ProductOver(alph, [tok \in alph |-> 1 + terms[tok]])]

\* Lorentzian.dist_abs: sum(log1p(terms[tok]) for tok in alphabet), kept as
\* the arguments of log1p and as the product of the 1 + terms[tok], whose
\* logarithm the sum is
LorentzianDistAbs(A, B) ==
    LET alph == DOMAIN TokenDistanceTotal(A, B)
        terms == [tok \in alph |-> Abs(Count(A, tok) - Count(B, tok))]
    IN  [terms |-> terms,
         product |-> ProductOver(alph, [tok \in alph |-> 1 + terms[tok]])]

\* cmp.dist_abs(src, tar)
DistAbs ==
    /\ lorentzian' = LorentzianDistAbs(src_tokens, tar_tokens)
    /\ UNCHANGED <<coefficient, sapsVars, legaliVars, statsVars, countVars>>

(* ------------- coefficients that divide cells of the table ------------- *)
\* a division that raises ZeroDivisionError on 0/0
Divide_Raises(num, den) ==
    IF den # 0 THEN [kind |-> "value", num |-> num, den |-> den]
    ELSE IF num = 0 THEN [kind |-> "ZeroDivisionError", num |-> 0, den |-> 0]
    ELSE [kind |-> "zero_division", num |-> num, den |-> 0]

\* num / den in a coefficient's formula: the fraction when den is not 0,
\* not-a-number for the indeterminate 0/0; a non-zero numerator over 0 is
\* kept apart as "zero_division"
Divide(num, den) ==
    IF den # 0 THEN [kind |-> "value", num |-> num, den |-> den]
    ELSE IF num = 0 THEN [kind |-> "nan", num |-> 0, den |-> 0]
    ELSE [kind |-> "zero_division", num |-> num, den |-> 0]

\* x + y of two quotients; anything but a value propagates, the left first
Add(x, y) ==
    IF x.kind # "value" THEN x
    ELSE IF y.kind # "value" THEN y
    ELSE [kind |-> "value", num |-> x.num * y.den + y.num * x.den,
          den |-> x.den * y.den]

\* 0.5 * x
Half(x) == IF x.kind # "value" THEN x ELSE [x EXCEPT !.den = 2 * x.den]

\* KuderRichardson.sim: 4(ad-bc) / ((a+b)(c+d) + (a+c)(b+d) + 2(ad-bc))
KuderRichardsonSim(t) ==
    LET a == t.both
        b == t.only_a
        c == t.only_b
        d == t.neither
        admbc == a * d - b * c
    IN  Divide(4 * admbc, (a + b) * (c + d) + (a + c) * (b + d) + 2 * admbc)

\* RogotGoldberg.sim: 1/2 (2a / (2a+b+c) + 2d / (2d+b+c))
RogotGoldbergSim(t) ==
    LET a == t.both
        b == t.only_a
        c == t.only_b
        d == t.neither
    IN  Half(Add(Divide(2 * a, 2 * a + b + c), Divide(2 * d, 2 * d + b + c)))

\* WarrensII.sim: 2d / (b + c + 2d)
WarrensIISim(t) ==
    LET b == t.only_a
        c == t.only_b
        d == t.neither
    IN  Divide(2 * d, b + c + 2 * d)

\* cmp.sim(src, tar) of the three coefficients on one pair
CoefficientSim ==
    /\ coefficient' =
          LET t == StatisticsTable(src_tokens, tar_tokens, alphabet)
          IN  [stats |-> t,
               KuderRichardson |-> KuderRichardsonSim(t),
               RogotGoldberg |-> RogotGoldbergSim(t),
               WarrensII |-> WarrensIISim(t)]
    /\ UNCHANGED <<lorentzian, sapsVars, legaliVars, statsVars, countVars>>

(* ------------------------- Count fingerprint --------------------------- *)
NoFingerprint == -1

\* the letters words are written in; "z" is in no list of common letters
Letters == {"e", "t", "z"}

Words(n) == UNION {[1..k -> Letters] : k \in 0..n}

\* the lists a caller passes as most_common
MostCommonLists == {<<>>, <<"e">>, <<"e", "t">>, <<"t", "e", "a">>}

\* Counter(word)[letter]
LetterCount(wd, letter) == Cardinality({k \in DOMAIN wd : wd[k] = letter})

\* lines 95-101: the loop over most_common; yields <<fingerprint, n_bits>>
RECURSIVE FingerprintLoop(_, _, _, _)
FingerprintLoop(letters, wd, fp, n) ==
    IF letters = <<>> THEN <<fp, n>>
    ELSE IF n # 0
         THEN FingerprintLoop(Tail(letters), wd,
                              fp * 4 + (LetterCount(wd, Head(letters)) % 4), n - 2)
         ELSE <<fp, n>>

\* fingerprint without the & 3 on the count
RECURSIVE FingerprintLoop_NoMask(_, _, _, _)
FingerprintLoop_NoMask(letters, wd, fp, n) ==
    IF letters = <<>> THEN <<fp, n>>
    ELSE IF n # 0
         THEN FingerprintLoop_NoMask(Tail(letters), wd,
                              fp * 4 + LetterCount(wd, Head(letters)), n - 2)
         ELSE <<fp, n>>

CountFingerprint_NoMask(bits, common, wd) ==
    LET n == IF bits % 2 = 1 THEN bits + 1 ELSE bits
        r == FingerprintLoop_NoMask(common, wd, 0, n)
    IN  IF r[2] # 0 THEN r[1] * 2 ^ r[2] ELSE r[1]

\* Count.fingerprint, lines 88-106
CountFingerprint(bits, common, wd) ==
    LET n == IF bits % 2 = 1 THEN bits + 1 ELSE bits
        r == FingerprintLoop(common, wd, 0, n)
    IN  IF r[2] # 0 THEN r[1] * 2 ^ r[2] ELSE r[1]

\* cf.fingerprint(wd)
Fingerprint(wd) ==
    /\ fp_word' = wd
    /\ fingerprint' = CountFingerprint(n_bits, most_common, wd)
    /\ UNCHANGED <<n_bits, most_common, sapsVars, legaliVars, statsVars, distVars>>

\* Count.__init__
InitCount(bits, lists) ==
    /\ n_bits \in bits
    /\ most_common \in lists
    /\ fp_word = <<>>
    /\ fingerprint = NoFingerprint

InitDist ==
    /\ lorentzian = NoResult
    /\ coefficient = NoResult

(* ---------- one caller, any sequence of tokenize calls ---------------- *)
Init ==
    /\ InitSAPS
    /\ InitLegaliPy({"function"})
    /\ InitStats({Counter(<<>>)}, {0})
    /\ InitDist
    /\ InitCount({0}, {<<>>})

Next ==
    \/ \E s \in Strings(MaxLen) : Call(1, s)
    \/ Step(1)

Spec == Init /\ [][Next]_vars

\* the interpreter runs the caller's thread until tokenize returns
SpecLive == Init /\ [][Next]_vars /\ WF_vars(Step(1))

(* ---------- two callers on one instance, one call each ---------------- *)
NextThreads ==
    \/ \E t \in Threads : \E s \in Strings(MaxLenThreads) :
           pc[t] = "idle" /\ Call(t, s)
    \/ \E t \in Threads : Step(t)

SpecThreads == Init /\ [][NextThreads]_vars

(* ---------- one caller, a tokenizer instance of each class ------------ *)
NextCache ==
    \/ \E s \in Strings(MaxLenCache) : Call(1, s)
    \/ Step(1)
    \/ ~Running(1) /\ LegaliPyTokenizerInit
    \/ \E s \in Strings(MaxLenCache) : ~Running(1) /\ LegaliPyTokenize(s)

SpecCache == Init /\ [][NextCache]_vars

(* ---------- LegaliPyTokenizer, with or without SyllabiPy -------------- *)
InitLegali ==
    /\ InitSAPS
    /\ InitLegaliPy({"None", "function"})
    /\ InitStats({Counter(<<>>)}, {0})
    /\ InitDist
    /\ InitCount({0}, {<<>>})

NextLegali ==
    \/ LegaliPyTokenizerInit
    \/ \E text \in Strings(MaxText) : \E append \in BOOLEAN :
           train_onsets(text, append)
    \/ \E s \in Strings(MaxLen) : LegaliPyTokenize(s)

SpecLegaliPy == InitLegali /\ [][NextLegali]_vars

(* ---------- a coefficient comparing two token multisets --------------- *)
InitCompare ==
    /\ InitSAPS
    /\ InitLegaliPy({"function"})
    /\ InitStats(Counters, 0..MaxAlphabet)
    /\ InitDist
    /\ InitCount({0}, {<<>>})

NextCompare == SimSrcTar \/ SimTarSrc

SpecStats == InitCompare /\ [][NextCompare]_vars

(* ---------- Lorentzian distance of two token multisets ---------------- *)
InitLorentzian ==
    /\ InitSAPS
    /\ InitLegaliPy({"function"})
    /\ InitStats(Counters, {0})
    /\ InitDist
    /\ InitCount({0}, {<<>>})

NextLorentzian == DistAbs

SpecLorentzian == InitLorentzian /\ [][NextLorentzian]_vars

(* ---------- the dividing coefficients on a pair of multisets ----------- *)
InitCoefficient ==
    /\ InitSAPS
    /\ InitLegaliPy({"function"})
    /\ InitStats(Counters, 0..MaxAlphabet)
    /\ InitDist
    /\ InitCount({0}, {<<>>})

NextCoefficient == CoefficientSim

SpecCoefficient == InitCoefficient /\ [][NextCoefficient]_vars

(* ---------- a Count fingerprinter, any sequence of words --------------- *)
InitFingerprint ==
    /\ InitSAPS
    /\ InitLegaliPy({"function"})
    /\ InitStats({Counter(<<>>)}, {0})
    /\ InitDist
    /\ InitCount(0..MaxBits, MostCommonLists)

NextFingerprint == \E wd \in Words(MaxWord) : Fingerprint(wd)

SpecCount == InitFingerprint /\ [][NextFingerprint]_vars

(* ============================== claims ================================= *)

Observed == Cardinality(DOMAIN src_tokens \cup DOMAIN tar_tokens)

CellSum(t) == t.both + t.only_a + t.only_b + t.neither

VowelEnd(word, s) ==
    CHOOSE k \in (s + 1)..Len(word) :
        /\ \A j \in (s + 2)..k : word[j] \in Vowels
        /\ k = Len(word) \/ word[k + 1] \notin Vowels

\* a consonant stands after the vowels and end-of-word or a consonant follows it
CodaFollows(word, k) ==
    /\ k < Len(word)
    /\ word[k + 1] \notin Vowels
    /\ k + 1 = Len(word) \/ word[k + 2] \notin Vowels

SyllableStart(t) == i[t] - Len(syll[t])

\* C2 (as claimed): every syllable is the character at the current position,
\* then all the vowels that follow, then one more consonant exactly when that
\* consonant is followed by end-of-word or by another consonant.
C2_SyllableRule ==
    \A t \in Threads : pc[t] = "l104" =>
        LET s == SyllableStart(t)
            k == VowelEnd(w[t], s)
        IN  syll[t] = SubSeq(w[t], s + 1, IF CodaFollows(w[t], k) THEN k + 1 ELSE k)

\* C2 (amended): every syllable is the character at the current position,
\* then all the vowels that follow, then one more consonant exactly when the
\* syllable so far ends in a vowel and that consonant is followed by
\* end-of-word or by another consonant.
C2_SyllableRuleAfterVowel ==
    \A t \in Threads : pc[t] = "l104" =>
        LET s == SyllableStart(t)
            k == VowelEnd(w[t], s)
        IN  syll[t] = SubSeq(w[t], s + 1,
                             IF w[t][k] \in Vowels /\ CodaFollows(w[t], k)
                             THEN k + 1 ELSE k)

C2_Witness ==
    /\ pc[1] = "l104"
    /\ w[1] = <<"b", "a", "b">>
    /\ syll[1] = <<"b", "a", "b">>

AllDone == \A t \in Threads : pc[t] = "done"

\* C3: two unsynchronized tokenize calls on one instance can leave an ordered
\* list that is the tokenization of neither string (C3_Witness); calls that do
\* not overlap cannot: they leave the tokenization of the string stored last.
C3_OnlyOverlapCorrupts ==
    (AllDone /\ ~overlapped) =>
        /\ self_string \in {string[t] : t \in Threads}
        /\ self_ordered_list = SAPSOrderedList(self_string)

C3_Witness ==
    /\ AllDone
    /\ string[1] # string[2]
    /\ \A t \in Threads : self_ordered_list # SAPSOrderedList(string[t])

\* C4: when a tokenize call has returned, the stored string and ordered list
\* (and the Counter) are those of a fresh instance that tokenized this call's
\* string only, for SAPSTokenizer and for LegaliPyTokenizer.
C4_CacheOverwritten ==
    /\ pc[1] = "done" =>
          /\ self_string = string[1]
          /\ self_ordered_list = SAPSOrderedList(string[1])
          /\ self_tokens = Counter(SAPSOrderedList(string[1]))
    /\ (lp # NoInstance /\ lp.string # NoString) =>
          /\ lp.ordered_list = SyllabiPyLegaliPy(lp.string, << <<>> >>, 0, <<>>)
          /\ lp.tokens = Counter(lp.ordered_list)

C4_Witness ==
    /\ pc[1] = "done"
    /\ string[1] = <<"a", "b">>
    /\ self_ordered_list = <<<<"a", "b">>>>
    /\ lp # NoInstance
    /\ lp.string = <<"b">>
    /\ lp.ordered_list = <<<<"b">>>>

\* C5: with SyllabiPy missing no LegaliPyTokenizer instance ever exists and
\* the only place that raises is __init__.
C5_FailsAtConstruction ==
    LegaliPy = "None" =>
        /\ lp = NoInstance
        /\ lp_raised \in {"none", "TypeError in __init__"}

C5_Witness ==
    /\ LegaliPy = "None"
    /\ lp_raised = "TypeError in __init__"

Untrained == lp # NoInstance /\ ~lp_trained

C7_EmptyInput ==
    (pc[1] = "done" /\ \A k \in DOMAIN string[1] : string[1][k] \in Whitespace) =>
        /\ self_ordered_list = <<>>
        /\ DOMAIN self_tokens = {}

C7_Witness ==
    /\ pc[1] = "done"
    /\ string[1] = <<" ", " ">>
    /\ self_ordered_list = <<>>

\* C8: SAPSTokenizer.tokenize never raises, and every call that was entered
\* returns.
C8_Total ==
    /\ [](pc[1] # "raised")
    /\ (pc[1] = "l78") ~> (pc[1] = "done")

C8_Witness ==
    /\ pc[1] = "done"
    /\ string[1] = <<"a", " ", "b">>

BothCompared == table # NoTable /\ table_rev # NoTable

\* C9: sim(src, tar) and sim(tar, src) have the same both, per-token totals,
\* intersection and union sizes and neither, only_a and only_b exchanged, and
\* the same coefficient value.
C9_SwapSymmetry ==
    BothCompared =>
        /\ table.stats.both = table_rev.stats.both
        /\ table.stats.total = table_rev.stats.total
        /\ table.stats.intersection = table_rev.stats.intersection
        /\ table.stats.union = table_rev.stats.union
        /\ table.stats.neither = table_rev.stats.neither
        /\ table.stats.only_a = table_rev.stats.only_b
        /\ table.stats.only_b = table_rev.stats.only_a
        /\ table.sim = table_rev.sim

C9_Witness ==
    /\ BothCompared
    /\ table.stats.both > 0
    /\ table.stats.only_a > table.stats.only_b
    /\ table.stats.intersection < table.stats.union

\* the value (sqrt(root) + num) / (sqrt(root) + den) is 1.0, is 0.0
IsOne(x) == x.num = x.den
IsZero(x) == x.root = 0 /\ x.num = 0 /\ x.den > 0

\* C10: with alphabet = 0 neither is 0, both, only_a and only_b are what every
\* other alphabet gives, and the similarity is 1.0 for two empty and for
\* identical inputs and 0.0 when one side is empty or no token is shared.
C10_AlphabetSentinel ==
    (table # NoTable /\ alphabet = 0) =>
        /\ table.stats.neither = 0
        /\ \A n \in 1..MaxAlphabet :
              LET other == StatisticsTable(src_tokens, tar_tokens, n)
              IN  /\ other.both = table.stats.both
                  /\ other.only_a = table.stats.only_a
                  /\ other.only_b = table.stats.only_b
        /\ src_tokens = tar_tokens => IsOne(table.sim)
        /\ (src_tokens # tar_tokens /\ DOMAIN src_tokens \cap DOMAIN tar_tokens = {})
              => IsZero(table.sim)

C10_Witness ==
    /\ table # NoTable
    /\ alphabet = 0
    /\ DOMAIN src_tokens # {}
    /\ DOMAIN tar_tokens # {}
    /\ DOMAIN src_tokens \cap DOMAIN tar_tokens = {}

Compared == DOMAIN src_tokens \cup DOMAIN tar_tokens

C13_FitsInNBits ==
    fingerprint # NoFingerprint =>
        /\ fingerprint >= 0
        /\ fingerprint < 2 ^ n_bits

RECURSIVE Concat(_)
Concat(list) == IF list = <<>> THEN <<>> ELSE Head(list) \o Concat(Tail(list))

\* C15: after tokenize the tokens of the ordered list, joined in order, are
\* the words of the input joined in order, and no token is empty.
C15_TokensCoverWords ==
    pc[1] = "done" =>
        /\ Concat(self_ordered_list) = Concat(Split(string[1]))
        /\ \A k \in DOMAIN self_ordered_list : self_ordered_list[k] # <<>>

Width == IF n_bits % 2 = 1 THEN n_bits + 1 ELSE n_bits

\* the two bits of the fingerprint at positions Width - 2k - 1 and Width - 2k - 2
Field(k) == (fingerprint \div 2 ^ (Width - 2 * k - 2)) % 4

SameCountsMod4(a, b) ==
    \A l \in Range(most_common) : LetterCount(a, l) % 4 = LetterCount(b, l) % 4

Anagrams(a, b) == \A l \in Letters : LetterCount(a, l) = LetterCount(b, l)

\* C16: with n_bits rounded up to the even width w, entry k of most_common
\* (k < w/2) holds its letter's count modulo 4 in bits w-2k-1 and w-2k-2, the
\* fields past the end of most_common are 0, nothing lies above bit w-1, and
\* words with the same counts modulo 4 (anagrams among them) get the same
\* fingerprint.
C16_BitLayout ==
    fingerprint # NoFingerprint =>
        /\ fingerprint >= 0
        /\ fingerprint < 2 ^ Width
        /\ \A k \in 0..(Width \div 2 - 1) :
              IF k < Len(most_common)
              THEN Field(k) = LetterCount(fp_word, most_common[k + 1]) % 4
              ELSE Field(k) = 0
        /\ \A other \in Words(MaxWord) :
              (SameCountsMod4(other, fp_word) \/ Anagrams(other, fp_word))
                  => CountFingerprint(n_bits, most_common, other) = fingerprint

C16_Witness ==
    /\ n_bits = 5
    /\ most_common = <<"e", "t">>
    /\ fp_word = <<"t", "e", "t", "z">>
    /\ fingerprint = 24

NoDuplicates(list) == Cardinality(Range(list)) = Len(list)

\* C14: a train_onsets call with append=False leaves the onset list equal to
\* the onsets derived from its text; a call with append=True leaves a
\* duplicate-free list holding exactly the onsets held before the call and
\* the newly derived ones; tokenize leaves the onset list as it was.
C14_OnsetList ==
    [][(lp # NoInstance /\ lp' # NoInstance /\ lp_raised' = "none") =>
          /\ (lp_trained' /\ lp'.string = lp.string) =>
                \A text \in Strings(MaxText) :
                   /\ train_onsets(text, FALSE)
                          => lp'.onsets = SyllabiPyGetOnsets(text)
                   /\ train_onsets(text, TRUE)
                          => /\ Range(lp'.onsets) =
                                   Range(lp.onsets) \cup Range(SyllabiPyGetOnsets(text))
                             /\ NoDuplicates(lp'.onsets)
          /\ (lp'.string # NoString /\ LegaliPyTokenize(lp'.string))
                => lp'.onsets = lp.onsets]_vars

C14_Witness ==
    /\ lp # NoInstance
    /\ lp_trained
    /\ lp.string # NoString
    /\ {<<>>, <<"b">>} \subseteq Range(lp.onsets)
    /\ NoDuplicates(lp.onsets)

Cells == coefficient.stats

ZeroOverZero(num, den) == num = 0 /\ den = 0

====
